---- MODULE Spec2Model ----
(***************************************************************************)
(* Model of msgbid-worker/src/scheduler.js: the SchedulerDurableObject,    *)
(* a sealed-bid message auction.  Clients register, submit bids that are   *)
(* parked in an in-memory batch, and a settlement (processBatch) runs when *)
(* the batch reaches N bids or when the alarm armed by the first bid       *)
(* fires.                                                                  *)
(*                                                                         *)
(* Granularity.  Every handler is one action.  The object is a Durable     *)
(* Object: JavaScript runs to completion between awaits, storage awaits    *)
(* close the input gate and blockConcurrencyWhile sections exclude every   *)
(* other event, so no other handler runs between the balance check of      *)
(* handleSendMessage (line 235) and the end of its settlement, nor inside  *)
(* processBatch, handleDelete or alarm.                                    *)
(*                                                                         *)
(* Storage faults.  Every awaited storage call of processBatch may reject.  *)
(* The code has no try/catch around them, so the exception leaves the      *)
(* function at that await: what was written before it stays written,       *)
(* nothing after it runs.  (Faults of handleRegister and handleDelete are  *)
(* not modelled.)                                                          *)
(***************************************************************************)
EXTENDS Integers, Sequences, FiniteSets, TLC

\* ---------------------------------------------------------------- configuration
\* constructor, lines 11-15: parseInt(env.X) || default.  The values are a
\* small configuration with 0 <= START_BAL <= MAX_BAL and ACCUMULATE_BAL >= 0.
N == 3
timeout == 1
accumulate == 1
start == 2
max_bal == 3

\* ----------------------------------------------------------------------- bounds
MaxTokens == 2
MaxBid == 3
MaxTime == 2
MaxLog == 2
MaxBatch == 3

Tokens == 1..MaxTokens
Messages == {"a", "b"}

\* storage.getAlarm() of an object with no armed alarm; an armed alarm is <<time>>.
NoAlarm == <<>>

\* Inputs of POST /messages.  Token 0 is an absent X-Client-Token header, the
\* empty message is an absent (falsy) message, and a bid is null, not a number,
\* or a number (0 stands for the non-positive ones).
Request(token, message, type, value) ==
  [token |-> token, message |-> message, bid |-> [type |-> type, value |-> value]]

\* The well-formed requests, and one request for each way of being malformed.
Requests ==
  {Request(t, m, "number", v) : t \in Tokens, m \in Messages, v \in 1..MaxBid}
  \cup {Request(0, "a", "number", 1), Request(1, "", "number", 1),
        Request(1, "a", "null", 0), Request(1, "a", "string", 0),
        Request(1, "a", "number", 0)}

\* What processBatch may fail at: its awaited storage calls, in order.
Faults == {"deleteAlarm", "get", "putBalances", "putMessage"}

VARIABLES
  balance,          \* storage, balance:<token> -> number, for the stored keys
  names,            \* storage, the tokens that have a name:<token> key
  messages,         \* storage, the message: namespace in key (time) order
  alarm,            \* storage, the armed alarm time, or NoAlarm
  batch,            \* this.batch
  pendingRequests,  \* this.pendingRequests: the token of each parked request
  processing,       \* this.processing
  now,              \* Date.now()
  out               \* what the last handler returned, resolved and threw

vars == <<balance, names, messages, alarm, batch, pendingRequests, processing, now, out>>

\* out.req is the bid a sendMessage call admitted (NoReq otherwise), out.ret the
\* response the call returned, out.resolved the responses handed to the parked
\* requests, out.settled whether a settlement ran to its end, out.threw whether
\* the handler ended in an exception.
NoReq == [token |-> 0, message |-> "", bid |-> 0]

Out(op, ret) ==
  [op |-> op, req |-> NoReq, ret |-> ret, resolved |-> <<>>, settled |-> FALSE,
   threw |-> FALSE]

NoOut == Out("init", "none")

\* ------------------------------------------------------------------ processBatch
Min(a, b) == IF a < b THEN a ELSE b

\* Index of the entry of u with this token, 0 when there is none (Map.get).
RECURSIVE IndexOf(_, _, _)
IndexOf(u, token, k) ==
  IF k = 0 THEN 0
  ELSE IF u[k].token = token THEN k
  ELSE IndexOf(u, token, k - 1)

\* A deduplication in which a bid replaces the kept one when it is as large.
RECURSIVE UniqueBidsUpToKeepsLatest(_, _)
UniqueBidsUpToKeepsLatest(b, k) ==
  IF k = 0 THEN <<>>
  ELSE LET prev == UniqueBidsUpToKeepsLatest(b, k - 1)
           bid == b[k]
           i == IndexOf(prev, bid.token, Len(prev))
       IN IF i = 0 THEN Append(prev, bid)
          ELSE IF bid.bid >= prev[i].bid THEN [prev EXCEPT ![i] = bid]
          ELSE prev

\* Lines 272-279.  A Map keeps the insertion position of a key whose value is
\* replaced, and a bid replaces the kept one only when strictly larger.
RECURSIVE UniqueBidsUpTo(_, _)
UniqueBidsUpTo(b, k) ==
  IF k = 0 THEN <<>>
  ELSE LET prev == UniqueBidsUpTo(b, k - 1)
           bid == b[k]
           i == IndexOf(prev, bid.token, Len(prev))
       IN IF i = 0 THEN Append(prev, bid)
          ELSE IF bid.bid > prev[i].bid THEN [prev EXCEPT ![i] = bid]
          ELSE prev

UniqueBids(b) == UniqueBidsUpTo(b, Len(b))

\* Line 303: Array.prototype.sort with (a, b) => b.bid - a.bid is a stable sort,
\* descending by bid: x goes after every element whose bid is >= its own.
RECURSIVE InsertDesc(_, _)
InsertDesc(s, x) ==
  IF s = <<>> THEN <<x>>
  ELSE IF s[1].bid >= x.bid THEN <<s[1]>> \o InsertDesc(Tail(s), x)
  ELSE <<x>> \o s

RECURSIVE SortDescUpTo(_, _)
SortDescUpTo(u, k) ==
  IF k = 0 THEN <<>> ELSE InsertDesc(SortDescUpTo(u, k - 1), u[k])

SortDesc(u) == SortDescUpTo(u, Len(u))

\* A first-price settlement: the winner is charged its own bid.
SecondHighestBidFirstPrice(sorted) == sorted[1].bid

\* Line 305: uniqueBids[1]?.bid || 0
SecondHighestBid(sorted) == IF Len(sorted) >= 2 THEN sorted[2].bid ELSE 0

\* Line 306
RECURSIVE SumBidUpTo(_, _)
SumBidUpTo(sorted, k) ==
  IF k = 0 THEN 0 ELSE SumBidUpTo(sorted, k - 1) + sorted[k].bid

SumBid(sorted) == SumBidUpTo(sorted, Len(sorted))

\* Lines 310-313
WinnerBalance(bal, second) == IF bal - second < 0 THEN 0 ELSE bal - second

\* No reward for the losers.
LoserBalanceNoReward(bal) == bal

\* The reward without the cap.
LoserBalanceNoCap(bal) == bal + accumulate

\* Lines 321-322
LoserBalance(bal) == Min(max_bal, bal + accumulate)

\* Lines 283-332: the balances of the unique bidders after the update; the
\* other keys are not written.
UpdatedBalances(sorted, bal) ==
  LET bidders == {sorted[i].token : i \in 1..Len(sorted)}
      highestToken == sorted[1].token
  IN [t \in DOMAIN bal |->
        IF t = highestToken THEN WinnerBalance(bal[t], SecondHighestBid(sorted))
        ELSE IF t \in bidders THEN LoserBalance(bal[t])
        ELSE bal[t]]

\* The message of the lowest bidder instead of the highest.
AcceptedMessageOfLowest(sorted) ==
  [message |-> sorted[Len(sorted)].message,
   bidderToken |-> sorted[Len(sorted)].token]

\* Lines 335-344 (bidderName and timestamp are left out).
AcceptedMessage(sorted) ==
  [message |-> sorted[1].message, bidderToken |-> sorted[1].token]

\* A payload that tells every token it was accepted.
ResponseForAllAccepted(token, sorted, newBal, nBids) ==
  [token |-> token,
   message |-> sorted[1].message,
   balance |-> newBal[token],
   status |-> "accepted",
   winBid |-> SecondHighestBid(sorted),
   sumBid |-> SumBid(sorted),
   nBids |-> nBids]

\* Lines 347-366: the payload for a token of the batch.
ResponseFor(token, sorted, newBal, nBids) ==
  [token |-> token,
   message |-> sorted[1].message,
   balance |-> newBal[token],
   status |-> IF token = sorted[1].token THEN "accepted" ELSE "rejected",
   winBid |-> SecondHighestBid(sorted),
   sumBid |-> SumBid(sorted),
   nBids |-> nBids]

\* Lines 369-376: one response per parked request, in parked order.
Resolved(pend, sorted, newBal, nBids) ==
  [i \in 1..Len(pend) |-> ResponseFor(pend[i], sorted, newBal, nBids)]

\* A reset that forgets to empty the batch and the parked list.
ResetStateKeepsBatch(b, pend) ==
  [batch |-> b, pendingRequests |-> pend, processing |-> FALSE]

\* Lines 378-381: the in-memory state after a settlement of batch b with the
\* parked requests pend.
ResetState(b, pend) ==
  [batch |-> <<>>, pendingRequests |-> <<>>, processing |-> FALSE]

\* Lines 264-383.  b is this.batch and al the armed alarm when processBatch is
\* called; fault is the storage call that rejects ("none": they all succeed).
\* The result is the state processBatch leaves.
ProcessBatch(b, al, fault) ==
  LET same == [alarm |-> al, balance |-> balance, messages |-> messages,
               batch |-> b, pendingRequests |-> pendingRequests,
               processing |-> processing, resolved |-> <<>>,
               settled |-> FALSE, threw |-> FALSE]
      sorted == SortDesc(UniqueBids(b))
      newBal == UpdatedBalances(sorted, balance)
  IN IF processing THEN same                                       \* line 265
     ELSE IF fault = "deleteAlarm"                                 \* line 269
       THEN [same EXCEPT !.processing = TRUE, !.threw = TRUE]
     ELSE IF fault \in {"get", "putBalances"}                      \* 287, 332
       THEN [same EXCEPT !.processing = TRUE, !.threw = TRUE, !.alarm = NoAlarm]
     ELSE IF fault = "putMessage"                                  \* line 344
       THEN [same EXCEPT !.processing = TRUE, !.threw = TRUE, !.alarm = NoAlarm,
                         !.balance = newBal]
     ELSE [alarm |-> NoAlarm,
           balance |-> newBal,
           messages |-> Append(messages, AcceptedMessage(sorted)),
           batch |-> ResetState(b, pendingRequests).batch,
           pendingRequests |-> ResetState(b, pendingRequests).pendingRequests,
           processing |-> ResetState(b, pendingRequests).processing,
           resolved |-> Resolved(pendingRequests, sorted, newBal,
                                 Len(UniqueBids(b))),
           settled |-> TRUE,
           threw |-> FALSE]

\* The state a call of processBatch leaves, and what the handler gave back.
Leave(r, op, req, ret) ==
  /\ alarm' = r.alarm
  /\ balance' = r.balance
  /\ messages' = r.messages
  /\ batch' = r.batch
  /\ pendingRequests' = r.pendingRequests
  /\ processing' = r.processing
  /\ out' = [op |-> op, req |-> req, ret |-> ret, resolved |-> r.resolved,
             settled |-> r.settled, threw |-> r.threw]

\* ---------------------------------------------------------------- handleRegister
\* Lines 75-96.  generateToken draws 12 random bytes: the token is one that no
\* stored key uses.
Register(t) ==
  /\ t \notin DOMAIN balance
  /\ t \notin names
  /\ balance' = [u \in DOMAIN balance \cup {t} |-> IF u = t THEN start ELSE balance[u]]
  /\ names' = names \cup {t}
  /\ out' = Out("register", "200")
  /\ UNCHANGED <<messages, alarm, batch, pendingRequests, processing, now>>

\* ------------------------------------------------------------- handleSendMessage
\* The checks without the comparison of the bid with the stored balance.
RejectionNoBalanceCheck(token, message, bid) ==
  IF token = 0 THEN "Missing token header"
  ELSE IF message = "" \/ bid.type = "null" THEN "Missing parameters"
  ELSE IF bid.type # "number" \/ bid.value <= 0 THEN "Invalid bid amount"
  ELSE IF token \notin DOMAIN balance THEN "Invalid token or insufficient balance"
  ELSE ""

\* Lines 219-239: why a request is not admitted, "" when it is.  Each of them
\* is answered with status 400.
Rejection(token, message, bid) ==
  IF token = 0 THEN "Missing token header"
  ELSE IF message = "" \/ bid.type = "null" THEN "Missing parameters"
  ELSE IF bid.type # "number" \/ bid.value <= 0 THEN "Invalid bid amount"
  ELSE IF token \notin DOMAIN balance THEN "Invalid token or insufficient balance"
  ELSE IF balance[token] < bid.value THEN "Invalid token or insufficient balance"
  ELSE ""

\* An admission that never arms the alarm.
ArmAlarmNever(b, al) == al

\* Lines 245-247: the alarm after the bid was pushed.
ArmAlarm(b, al) == IF Len(b) = 1 THEN <<now + timeout>> ELSE al

\* Line 250
ThresholdReached(b) == Len(b) >= N

SendRejected(token, message, bid) ==
  /\ Rejection(token, message, bid) # ""
  /\ out' = Out("sendMessage", "400")
  /\ UNCHANGED <<balance, names, messages, alarm, batch, pendingRequests,
                 processing, now>>

\* Lines 241-258, below the threshold: the caller is parked.
SendParked(token, message, bid) ==
  LET entry == [token |-> token, message |-> message, bid |-> bid.value]
      b == Append(batch, entry)
  IN /\ Rejection(token, message, bid) = ""
     /\ Len(batch) < MaxBatch
     /\ Len(messages) < MaxLog
     /\ now + timeout <= MaxTime
     /\ ~ThresholdReached(b)
     /\ batch' = b
     /\ alarm' = ArmAlarm(b, alarm)
     /\ pendingRequests' = Append(pendingRequests, token)
     /\ out' = [Out("sendMessage", "parked") EXCEPT !.req = entry]
     /\ UNCHANGED <<balance, names, messages, processing, now>>

\* Lines 241-253 and 260-261, at the threshold: processBatch runs inside the
\* caller, which is not parked and falls through to line 261.  A storage
\* exception reaches the catch of fetch (lines 60-63).
SendThreshold(token, message, bid, fault) ==
  LET entry == [token |-> token, message |-> message, bid |-> bid.value]
      b == Append(batch, entry)
  IN /\ Rejection(token, message, bid) = ""
     /\ Len(batch) < MaxBatch
     /\ Len(messages) < MaxLog
     /\ now + timeout <= MaxTime
     /\ ThresholdReached(b)
     /\ \E r \in {ProcessBatch(b, ArmAlarm(b, alarm), fault)} :
           Leave(r, "sendMessage", entry,
                 IF r.threw THEN "500 Internal Server Error"
                 ELSE "500 Unexpected error")
     /\ UNCHANGED <<names, now>>

\* ------------------------------------------------------------------------ alarm
\* The armed alarm's time has come.
AlarmDue == IF alarm = NoAlarm THEN FALSE ELSE now >= alarm[1]

\* Lines 438-444.  The armed alarm fires once its time has come; firing
\* disarms it.
AlarmFires(fault) ==
  /\ AlarmDue
  /\ IF Len(batch) > 0
       THEN \E r \in {ProcessBatch(batch, NoAlarm, fault)} :
              Leave(r, "alarm", NoReq, "none")
       ELSE /\ alarm' = NoAlarm
            /\ out' = Out("alarm", "none")
            /\ UNCHANGED <<balance, messages, batch, pendingRequests, processing>>
  /\ UNCHANGED <<names, now>>

\* ----------------------------------------------------------------- handleDelete
\* A reset that leaves the parked requests in memory.
HandleDeleteKeepsParked ==
  /\ alarm' = NoAlarm
  /\ balance' = <<>>
  /\ names' = {}
  /\ messages' = <<>>
  /\ batch' = <<>>
  /\ processing' = FALSE
  /\ out' = Out("delete", "200")
  /\ UNCHANGED <<pendingRequests, now>>

\* A reset that deletes the stored keys and leaves the batch in memory.
HandleDeleteKeepsBatch ==
  /\ alarm' = NoAlarm
  /\ balance' = <<>>
  /\ names' = {}
  /\ messages' = <<>>
  /\ processing' = FALSE
  /\ out' = Out("delete", "200")
  /\ UNCHANGED <<batch, pendingRequests, now>>

\* Lines 385-436, with the admin token.
HandleDelete ==
  /\ alarm' = NoAlarm
  /\ balance' = <<>>
  /\ names' = {}
  /\ messages' = <<>>
  /\ batch' = <<>>
  /\ pendingRequests' = <<>>
  /\ processing' = FALSE
  /\ out' = Out("delete", "200")
  /\ UNCHANGED now

\* ------------------------------------------------------------------------- time
\* Time passes, but not past an armed alarm: the alarm fires at its time.
Tick ==
  /\ now < MaxTime
  /\ IF alarm = NoAlarm THEN TRUE ELSE now < alarm[1]
  /\ now' = now + 1
  /\ out' = Out("tick", "none")
  /\ UNCHANGED <<balance, names, messages, alarm, batch, pendingRequests, processing>>

\* ---------------------------------------------------------------- specification
Init ==
  /\ balance = <<>>
  /\ names = {}
  /\ messages = <<>>
  /\ alarm = NoAlarm
  /\ batch = <<>>
  /\ pendingRequests = <<>>
  /\ processing = FALSE
  /\ now = 0
  /\ out = NoOut

Next ==
  \/ \E t \in Tokens : Register(t)
  \/ \E q \in Requests : SendRejected(q.token, q.message, q.bid)
  \/ \E q \in Requests : SendParked(q.token, q.message, q.bid)
  \/ \E q \in Requests : SendThreshold(q.token, q.message, q.bid, "none")
  \/ \E q \in Requests, f \in Faults : SendThreshold(q.token, q.message, q.bid, f)
  \/ AlarmFires("none")
  \/ \E f \in Faults : AlarmFires(f)
  \/ HandleDelete
  \/ Tick

Spec == Init /\ [][Next]_vars

\* The same object when no storage call ever rejects.
NextNoFault ==
  \/ \E t \in Tokens : Register(t)
  \/ \E q \in Requests : SendRejected(q.token, q.message, q.bid)
  \/ \E q \in Requests : SendParked(q.token, q.message, q.bid)
  \/ \E q \in Requests : SendThreshold(q.token, q.message, q.bid, "none")
  \/ AlarmFires("none")
  \/ HandleDelete
  \/ Tick

SpecNoFault == Init /\ [][NextNoFault]_vars

\* No storage fault and no admin reset; the clock advances and an armed alarm
\* whose time has come is delivered (the runtime fires every armed alarm).
NextLive ==
  \/ \E t \in Tokens : Register(t)
  \/ \E q \in Requests : SendRejected(q.token, q.message, q.bid)
  \/ \E q \in Requests : SendParked(q.token, q.message, q.bid)
  \/ \E q \in Requests : SendThreshold(q.token, q.message, q.bid, "none")
  \/ AlarmFires("none")
  \/ Tick

\* The alarm handler is enabled exactly when the alarm is due.
AlarmFiresEnabled == (ENABLED <<AlarmFires("none")>>_vars) <=> AlarmDue

\* Weak fairness of the clock and of the alarm handler; the latter is
\* WF_vars(AlarmFires("none")) with its enabling condition written out.
SpecLive ==
  /\ Init /\ [][NextLive]_vars
  /\ WF_vars(Tick)
  /\ ([]<>(~AlarmDue) \/ []<><<AlarmFires("none")>>_vars)

\* ======================================================================= claims
\* What the claims speak of, stated from the batch and not from processBatch.
Max(S) == CHOOSE x \in S : \A y \in S : y <= x

Bidders(b) == {b[i].token : i \in 1..Len(b)}

BestBid(b, t) == Max({b[i].bid : i \in {j \in 1..Len(b) : b[j].token = t}})

\* The second-highest deduplicated bid of a round that w wins, 0 with no rival.
ClearingPrice(b, w) ==
  IF Bidders(b) = {w} THEN 0 ELSE Max({BestBid(b, t) : t \in Bidders(b) \ {w}})

\* A step in which a settlement ran to its end: it appended to the log.
Settles == Len(messages') = Len(messages) + 1

\* The batch that step settled: the batch before it, with the bid the step
\* admitted when the step is a sendMessage call.
SettledBatch == IF out'.op = "sendMessage" THEN Append(batch, out'.req) ELSE batch

Winner == messages'[Len(messages')].bidderToken

\* C1 - Vickrey rule: in every settlement the winner is a bidder with the
\* highest deduplicated bid, and its stored balance afterwards is
\* max(0, balance before - second-highest deduplicated bid), the balance before
\* when it is the only bidder.
VickreyRule ==
  [][Settles =>
       /\ Winner \in Bidders(SettledBatch)
       /\ \A t \in Bidders(SettledBatch) :
             BestBid(SettledBatch, t) <= BestBid(SettledBatch, Winner)
       /\ balance'[Winner] =
             Max({0, balance[Winner] - ClearingPrice(SettledBatch, Winner)})
       /\ Bidders(SettledBatch) = {Winner} => balance'[Winner] = balance[Winner]
    ]_vars

\* A settlement of two unique bidders in which the winner paid a positive price
\* has just run, and one of a single bidder would pay nothing.
VickreyWitness ==
  /\ out.settled
  /\ \E i \in 1..Len(out.resolved) :
        /\ out.resolved[i].status = "accepted"
        /\ out.resolved[i].nBids = 2
        /\ out.resolved[i].winBid = 1
        /\ out.resolved[i].balance = start - 1

\* C2 - Response fan-out: the callers answered with a round's settlement
\* payload are as many as the bids admitted to the round, and the caller whose
\* bid brings the batch to N is answered with the payload, never with the
\* 'Unexpected error' 500.
ResponseFanOut ==
  [][Settles =>
       /\ Len(out'.resolved) + (IF out'.ret = "payload" THEN 1 ELSE 0)
            = Len(SettledBatch)
       /\ out'.ret # "500 Unexpected error"
    ]_vars

\* C3 - Exactly-once settlement: a step settles at most one batch, appending
\* one message, through one path (the threshold of sendMessage or the alarm),
\* and leaves nothing of the batch to settle again: the batch and the parked
\* list are empty and the alarm is disarmed, so the other path finds nothing.
\* Only a settlement and the admin reset change the log.
ExactlyOnceSettlement ==
  [][/\ messages' # messages =>
          \/ out'.op = "delete" /\ messages' = <<>>
          \/ /\ Settles
             /\ SubSeq(messages', 1, Len(messages)) = messages
             /\ out'.op \in {"sendMessage", "alarm"}
             /\ SettledBatch # <<>>
             /\ batch' = <<>>
             /\ pendingRequests' = <<>>
             /\ alarm' = NoAlarm
             /\ ~processing'
     /\ (out'.op = "alarm" /\ batch = <<>>) =>
          UNCHANGED <<balance, names, messages, batch, pendingRequests, processing>>
    ]_vars

\* A threshold settlement has just run while the alarm of its batch was armed
\* and due: the alarm is gone with the batch.
ExactlyOnceWitness ==
  /\ out.settled
  /\ out.op = "sendMessage"
  /\ Len(out.resolved) = N - 1
  /\ now = timeout
  /\ alarm = NoAlarm
  /\ batch = <<>>

AlarmBatchCoupling == (batch = <<>>) <=> (alarm = NoAlarm)

\* C6 - Failure recovery: when a storage call of processBatch fails, every
\* parked request is resolved with a 500, the batch and the parked list are
\* empty, the processing flag is false and the alarm is cleared.
FailureRecovery ==
  [][(out'.threw /\ out'.op \in {"sendMessage", "alarm"}) =>
       /\ Len(out'.resolved) = Len(pendingRequests)
       /\ \A i \in 1..Len(out'.resolved) : out'.resolved[i].status = "500"
       /\ batch' = <<>>
       /\ pendingRequests' = <<>>
       /\ ~processing'
       /\ alarm' = NoAlarm
    ]_vars

\* A step that admits a bid (parked, or settled at the threshold).
Admits == out'.op = "sendMessage" /\ out'.req # NoReq

\* The parked requests are the callers of the batch's bids, in order.
ParkedAreInBatch ==
  /\ Len(pendingRequests) = Len(batch)
  /\ \A i \in 1..Len(batch) : pendingRequests[i] = batch[i].token

\* C7 - Liveness of parked bids: with no storage fault and no reset, and the
\* armed alarm firing, a parked bid is in the batch with the alarm armed, and
\* the settlement that answers it comes: with n requests parked, a settlement
\* that resolves at least n follows.
ParkedBidsAnswered ==
  /\ [](pendingRequests # <<>> => ParkedAreInBatch /\ alarm # NoAlarm)
  /\ \A n \in 1..MaxBatch :
        (Len(pendingRequests) = n) ~> (out.settled /\ Len(out.resolved) >= n)

\* The alarm has just settled a batch of two parked bids.
ParkedBidsWitness ==
  /\ out.settled
  /\ out.op = "alarm"
  /\ Len(out.resolved) = 2
  /\ pendingRequests = <<>>

\* The alarm is armed by the first admission of a batch, for that time plus
\* TIMEOUT, and no later admission to the batch arms or moves it: a parked
\* admission leaves it as it is, one that runs processBatch can only cancel it.
AlarmArmedOnce ==
  [][Admits =>
       /\ (batch = <<>> /\ out'.ret = "parked") => alarm' = <<now + timeout>>
       /\ (batch # <<>> /\ out'.ret = "parked") => alarm' = alarm
       /\ batch # <<>> => alarm' \in {alarm, NoAlarm}
    ]_vars

\* C8 - Timeout is not extended: the alarm is armed once, by the first
\* admission, for that time plus TIMEOUT, no later admission moves it, and so a
\* non-empty batch is never older than the alarm its first bid armed: the
\* alarm is armed and its time has not passed.
TimeoutNotExtended ==
  /\ AlarmArmedOnce
  /\ [](batch # <<>> => (alarm # NoAlarm /\ now <= alarm[1]))

\* C9 - Threshold trigger: an admission that brings the batch to N settles it
\* in the same step and leaves the batch empty and the alarm cancelled, so the
\* batch never holds N bids or more between two handlers.
ThresholdTrigger ==
  /\ [][(Admits /\ Len(batch) + 1 >= N) =>
          (Settles /\ batch' = <<>> /\ alarm' = NoAlarm)]_vars
  /\ [](Len(batch) < N)

ResetDone == out.op = "delete" /\ out.ret = "200"

\* C10 - Admin reset: after a reset that completed, whatever the state before,
\* the three namespaces are empty, the alarm is disarmed and the batch, the
\* parked list and the processing flag are cleared; a second reset changes
\* nothing.
AdminReset ==
  /\ [][ResetDone' =>
          /\ balance' = <<>> /\ names' = {} /\ messages' = <<>>
          /\ alarm' = NoAlarm
          /\ batch' = <<>> /\ pendingRequests' = <<>> /\ ~processing'
       ]_vars
  /\ [][(ResetDone /\ ResetDone') =>
          UNCHANGED <<balance, names, messages, alarm, batch, pendingRequests,
                      processing>>
       ]_vars

\* A reset has completed after the clock moved, on an object that is clean.
AdminResetWitness ==
  /\ ResetDone
  /\ now > 0
  /\ balance = <<>>
  /\ pendingRequests = <<>>

\* A bid that passes the checks of lines 221-239: a token, a message, a
\* positive amount, and a stored balance that covers the amount.
Affordable(e) ==
  /\ e.token \in DOMAIN balance
  /\ e.message # ""
  /\ e.bid > 0
  /\ e.bid <= balance[e.token]

\* A sendMessage step that admitted nothing.
Rejects == out'.op = "sendMessage" /\ out'.req = NoReq

\* C11 - Rejected submissions change nothing: a sendMessage call that fails
\* validation is answered with 400 and leaves the batch, the parked list, the
\* alarm and the stored balances, names and messages as they were; and a bid
\* is admitted only with a message, a positive amount and a stored balance of
\* its token that covers the amount.
RejectedChangeNothing ==
  /\ [][Rejects =>
          /\ out'.ret = "400"
          /\ UNCHANGED <<balance, names, messages, alarm, batch, pendingRequests,
                         processing>>
       ]_vars
  /\ [][Admits => Affordable(out'.req)]_vars

\* A request has just been answered with 400 while a bid is parked, its alarm
\* armed, and its token's balance too small for the largest bid.
RejectedWitness ==
  /\ out.op = "sendMessage"
  /\ out.ret = "400"
  /\ batch # <<>>
  /\ pendingRequests # <<>>
  /\ alarm # NoAlarm
  /\ \E t \in DOMAIN balance : balance[t] < MaxBid

\* The messages of the bids of token t in batch b that carry t's largest amount.
BestMessages(b, t) ==
  {b[i].message : i \in {j \in 1..Len(b) : b[j].token = t /\ b[j].bid = BestBid(b, t)}}

\* The log before the step is the log after it without its last entry.
LogAppended == Settles /\ SubSeq(messages', 1, Len(messages)) = messages

\* C12 - One accepted message per settlement: a settlement that completes
\* appends exactly one entry to the log, carrying the token of a bidder with
\* the highest deduplicated bid and the message of a largest bid of that
\* token; it writes the balances of the round's bidders only, and adds or
\* removes no balance key.  The log changes in no other way, but for the admin
\* reset, which empties it.
OneMessagePerSettlement ==
  /\ [][out'.settled =>
          /\ LogAppended
          /\ Winner \in Bidders(SettledBatch)
          /\ \A t \in Bidders(SettledBatch) :
                BestBid(SettledBatch, t) <= BestBid(SettledBatch, Winner)
          /\ messages'[Len(messages')].message \in BestMessages(SettledBatch, Winner)
          /\ DOMAIN balance' = DOMAIN balance
          /\ \A t \in DOMAIN balance \ Bidders(SettledBatch) : balance'[t] = balance[t]
       ]_vars
  /\ [][messages' # messages =>
          \/ out'.settled /\ LogAppended
          \/ out'.op = "delete" /\ messages' = <<>>
       ]_vars

\* The second settlement has just completed; the log holds two different
\* entries, the last one from a round of two bidders with different messages.
OneMessageWitness ==
  /\ out.settled
  /\ Len(messages) = 2
  /\ messages[1] # messages[2]
  /\ \E i, j \in 1..Len(out.resolved) :
        /\ out.resolved[i].nBids = 2
        /\ out.resolved[i].token # out.resolved[j].token
        /\ out.resolved[i].message = messages[2].message

\* C13 - Loser reward: in every settlement that completes, each bidder of the
\* round other than the winner ends with the stored balance
\* min(MAX_BAL, balance before + ACCUMULATE_BAL), whatever the number of its
\* bids in the round.
LoserReward ==
  [][out'.settled =>
       \A t \in Bidders(SettledBatch) \ {Winner} :
          balance'[t] = IF balance[t] + accumulate > max_bal THEN max_bal
                        ELSE balance[t] + accumulate
    ]_vars

\* A settlement has just answered two parked bids of one losing token, whose
\* balance was raised once, from START_BAL by ACCUMULATE_BAL.
LoserRewardWitness ==
  /\ out.settled
  /\ \E i, j \in 1..Len(out.resolved) :
        /\ i # j
        /\ out.resolved[i].token = out.resolved[j].token
        /\ out.resolved[i].status = "rejected"
        /\ out.resolved[i].balance = start + accumulate
        /\ balance[out.resolved[i].token] = start + accumulate
  /\ start + accumulate <= max_bal

\* C14 - Consistent per-token outcome: a settlement resolves each parked
\* request, in parked order, with a payload for its token whose status is
\* 'accepted' exactly when the token is the round's winner and 'rejected'
\* otherwise, whose balance is the one the settlement stored for the token,
\* and whose message is the accepted message; two parked requests of one token
\* get equal payloads.
ConsistentOutcome ==
  [][out'.settled =>
       /\ Len(out'.resolved) = Len(pendingRequests)
       /\ \A i \in 1..Len(out'.resolved) :
             /\ out'.resolved[i].token = pendingRequests[i]
             /\ out'.resolved[i].status \in {"accepted", "rejected"}
             /\ (out'.resolved[i].status = "accepted")
                   <=> (out'.resolved[i].token = Winner)
             /\ out'.resolved[i].balance = balance'[out'.resolved[i].token]
             /\ out'.resolved[i].message = messages'[Len(messages')].message
       /\ \A i, j \in 1..Len(out'.resolved) :
             out'.resolved[i].token = out'.resolved[j].token
                => out'.resolved[i] = out'.resolved[j]
    ]_vars

\* A settlement has just resolved two parked requests of the winning token,
\* which paid the bid of the round's other bidder.
ConsistentOutcomeWitness ==
  /\ out.settled
  /\ \E i, j \in 1..Len(out.resolved) :
        /\ i # j
        /\ out.resolved[i].token = out.resolved[j].token
        /\ out.resolved[i].status = "accepted"
        /\ out.resolved[i].nBids = 2
        /\ out.resolved[i].winBid = 1
        /\ balance[out.resolved[i].token] = start - 1

\* The sum of the largest bids of the tokens of S in batch b.
RECURSIVE SumBest(_, _)
SumBest(b, S) ==
  IF S = {} THEN 0
  ELSE LET t == CHOOSE x \in S : TRUE
       IN BestBid(b, t) + SumBest(b, S \ {t})

\* The bids of the batch before the step are still its first bids after it.
BatchKept ==
  IF Len(batch') < Len(batch) THEN FALSE
  ELSE SubSeq(batch', 1, Len(batch)) = batch

\* C15 - Settlement is atomic with respect to admission: no bid is admitted
\* while a settlement has started and has not reset the state (the processing
\* flag is set); a settlement that completes has deduplicated and priced every
\* bid admitted so far, the one admitted by the same call included, and
\* resolves the parked requests of those bids only; and bids leave the batch
\* only by such a settlement or by the admin reset.
SettlementAtomic ==
  /\ [][Admits => ~processing]_vars
  /\ [][out'.settled =>
          /\ batch' = <<>> /\ pendingRequests' = <<>>
          /\ \A i \in 1..Len(out'.resolved) :
                /\ out'.resolved[i].token \in Bidders(SettledBatch)
                /\ out'.resolved[i].nBids = Cardinality(Bidders(SettledBatch))
                /\ out'.resolved[i].sumBid
                      = SumBest(SettledBatch, Bidders(SettledBatch))
                /\ out'.resolved[i].winBid = ClearingPrice(SettledBatch, Winner)
       ]_vars
  /\ [][~BatchKept => (out'.settled \/ out'.op = "delete")]_vars

\* C16 - No half-committed settlement: the balances a settlement updates and
\* its accepted message are stored together or not at all, also when a storage
\* call of processBatch fails: a sendMessage or alarm step changes a stored
\* balance only if it appends the accepted message, and appends the message
\* only with the balances of the round stored.
NoHalfCommit ==
  [][out'.op \in {"sendMessage", "alarm"} =>
       /\ balance' # balance => Settles
       /\ Settles =>
             /\ out'.settled
             /\ \A t \in Bidders(SettledBatch) \ {Winner} :
                   balance'[t] = Min(max_bal, balance[t] + accumulate)
             /\ balance'[Winner] =
                   Max({0, balance[Winner] - ClearingPrice(SettledBatch, Winner)})
    ]_vars

MinOf(S) == CHOOSE x \in S : \A y \in S : x <= y

\* The positions in batch b of the bids of token t with t's largest amount.
BestPositions(b, t) ==
  {j \in 1..Len(b) : b[j].token = t /\ b[j].bid = BestBid(b, t)}

\* The message of the latest admitted of the bids of token t in batch b that
\* carry t's largest amount.
LatestBestMessage(b, t) == b[Max(BestPositions(b, t))].message

\* The message of the earliest admitted of them.
EarliestBestMessage(b, t) == b[MinOf(BestPositions(b, t))].message

\* C17 - Per-token deduplication tie: of the bids of a token in one batch the
\* settlement keeps one with the largest amount, the latest admitted of them
\* when several carry that amount, so the accepted message of a round is the
\* message of the winner's latest largest bid.
DedupKeepsLatest ==
  [][out'.settled =>
       /\ BestBid(SettledBatch, Winner) >= ClearingPrice(SettledBatch, Winner)
       /\ messages'[Len(messages')].message
             = LatestBestMessage(SettledBatch, Winner)
    ]_vars

\* C17, as amended - of the bids of a token in one batch the settlement keeps
\* one with the largest amount, the earliest admitted of them when several
\* carry that amount (first one wins), so the accepted message of a round is
\* the message of the winner's earliest largest bid.
DedupKeepsEarliest ==
  [][out'.settled =>
       /\ BestBid(SettledBatch, Winner) >= ClearingPrice(SettledBatch, Winner)
       /\ messages'[Len(messages')].message
             = EarliestBestMessage(SettledBatch, Winner)
    ]_vars

\* A call at the threshold has just settled a round of one token; its own bid
\* carries the token's largest amount and message "b", and the log has the
\* message "a" of an earlier bid of that amount.
DedupWitness ==
  /\ out.settled
  /\ out.op = "sendMessage"
  /\ out.req.message = "b"
  /\ Len(out.resolved) = N - 1
  /\ out.resolved[1].nBids = 1
  /\ out.resolved[1].sumBid = out.req.bid
  /\ out.resolved[1].token = out.req.token
  /\ messages[Len(messages)] = [message |-> "a", bidderToken |-> out.req.token]

\* The tokens whose largest bid is the highest of batch b.
Tied(b) ==
  {t \in Bidders(b) : \A u \in Bidders(b) : BestBid(b, u) <= BestBid(b, t)}

\* C18 - Winner tiebreak across tokens: when the largest bids of two or more
\* tokens are equal and highest, the winner is the tied token whose kept bid
\* was admitted first, in every admission order, also when a token reached the
\* tie by raising an earlier lower bid.  (Stated for the rounds in which every
\* tied token has one bid of the tied amount, so that its kept bid is that
\* bid whatever the rule among equal bids of one token.)
EarliestKeptBidWins ==
  [][(/\ out'.settled
      /\ Cardinality(Tied(SettledBatch)) >= 2
      /\ \A t \in Tied(SettledBatch) :
            Cardinality(BestPositions(SettledBatch, t)) = 1) =>
       /\ Winner \in Tied(SettledBatch)
       /\ \A t \in Tied(SettledBatch) :
             MinOf(BestPositions(SettledBatch, Winner))
                <= MinOf(BestPositions(SettledBatch, t))
    ]_vars

\* C19 - Client lifecycle: a balance key exists only for a token that register
\* issued since the last admin reset (the tokens that have a name key), and
\* holds a number; balance keys are created by register only, one at a time
\* and with START_BAL, and removed by the admin reset only, all at once; a
\* sendMessage or alarm step, settling or not, adds and removes none, since
\* every bid of the batch is of a token whose balance is stored.
ClientLifecycle ==
  /\ [](DOMAIN balance = names)
  /\ [](\A t \in DOMAIN balance : balance[t] \in Nat)
  /\ [](\A i \in 1..Len(batch) : batch[i].token \in DOMAIN balance)
  /\ [][DOMAIN balance' # DOMAIN balance =>
          \/ /\ out'.op = "register"
             /\ \E t \in Tokens \ DOMAIN balance :
                   /\ DOMAIN balance' = DOMAIN balance \cup {t}
                   /\ balance'[t] = start
          \/ /\ out'.op = "delete"
             /\ DOMAIN balance' = {}
       ]_vars
  /\ [][out'.op \in {"sendMessage", "alarm"} =>
          DOMAIN balance' = DOMAIN balance]_vars

\* The alarm has just settled, at the last instant, the bid of the only token
\* that has a balance key: the other token is not registered or was deleted,
\* and the settlement left it without a key.
ClientLifecycleWitness ==
  /\ out.settled
  /\ out.op = "alarm"
  /\ now = MaxTime
  /\ Cardinality(DOMAIN balance) = 1
  /\ Len(messages) = 1

\* C20 - Bids are covered: in every reachable state each bid of the batch is
\* positive and at most the stored balance of its token, so at every
\* settlement the clearing price is at most the winner's balance and the clamp
\* at 0 changes nothing: the winner ends with its balance less the price.
BidsCovered ==
  /\ [](\A i \in 1..Len(batch) :
          /\ 0 < batch[i].bid
          /\ batch[i].token \in DOMAIN balance
          /\ batch[i].bid <= balance[batch[i].token])
  /\ [][out'.settled =>
          /\ ClearingPrice(SettledBatch, Winner) <= balance[Winner]
          /\ balance'[Winner] = balance[Winner] - ClearingPrice(SettledBatch, Winner)
       ]_vars

====
